---------------------------- MODULE Spec2Model ----------------------------
(***************************************************************************)
(* The daily sales-order summary Map/Reduce script (src/unnamed/part_000). *)
(*                                                                         *)
(* getInputData searches today's sales orders, map turns every search      *)
(* result into a salesDetails object written under the sales rep's id,     *)
(* the host groups the written values by key, and reduce sends one e-mail  *)
(* per key.  The host (the Map/Reduce framework the script is deployed in) *)
(* is modelled from what the entry points' own documentation comments say  *)
(* about it; the entry points are translated from their bodies.            *)
(***************************************************************************)
EXTENDS Integers, Sequences, FiniteSets, Bags, TLC

(***************************************************************************)
(* Bounds of the model.                                                    *)
(***************************************************************************)
\* the largest number of sales orders the day's search finds
MaxOrders == 3

\* the largest number of restarts of an invocation in one run
MaxRestarts == 1

\* the largest number of POST requests the Suitelet serves
MaxPosts == 2

\* how far below and above the end of the range a long day's number of
\* sales orders lies, and how many of the last results are mapped
CapMargin == 3

(***************************************************************************)
(* Program constants.                                                      *)
(***************************************************************************)
\* searchResult.getRange({ start: 0, end: 1000 })
RangeStart == 0
RangeEnd == 1000

\* salesOrderDetails[0].supervisor || -5 : the JavaScript number -5, written
\* as a string so that the author of an e-mail has one sort in the model
UnknownSupervisor == "-5"

\* format.format({type: DATE, value: new Date()}) : the run's day
todayDate == "today"

\* the expense category and the account of the commission expense line
CommissionCategory == 10
ExpenseAccount == 122

(***************************************************************************)
(* Search results.  A select column (entity, salesrep, the joined          *)
(* supervisor, internalid) is serialised as an array of {value, text}      *)
(* entries, which the script reads with [0]; a column with no value is the *)
(* empty array.  A blank entry (value "") is a column that is present and  *)
(* empty: the only way for a falsy supervisor to reach reduce.             *)
(***************************************************************************)
Absent == << >>

Sel(v, t) == << [value |-> v, text |-> t] >>

SalesOrder(id, tranid, customer, amount, rep, sup) ==
    [ id |-> id,
      values |-> [ internalid |-> Sel(id, "id"),
                   entity     |-> Sel("c", customer),
                   tranid     |-> tranid,
                   salesrep   |-> rep,
                   trandate   |-> todayDate,
                   amount     |-> amount,
                   supervisor |-> sup ] ]

\* the sales orders a day of the account may hold
Orders ==
    { SalesOrder(1, "SO1", "Acme", "100", Sel("A", "Ann"), Sel("S1", "Sue")),
      SalesOrder(2, "SO2", "Bolt", "50",  Sel("A", "Ann"), Sel("S1", "Sue")),
      SalesOrder(3, "SO3", "Core", "200", Sel("B", "Bob"), Absent),
      SalesOrder(4, "SO4", "Dune", "70",  Absent,          Sel("S1", "Sue")),
      SalesOrder(5, "SO5", "Echo", "30",  Sel("A", "Ann"), Sel("", "")),
      SalesOrder(6, "SO6", "Flux", "60",  Sel("a", "abe"), Sel("S2", "Sam")),
      SalesOrder(7, "SO7", "Gulf", "200", Sel("B", "Bob"), Sel("", "")),
      SalesOrder(8, "SO8", "Hive", "bad", Sel("B", "Bob"), Sel("S2", "Sam")) }

(***************************************************************************)
(* Helpers for sequences.                                                  *)
(***************************************************************************)
Range(s) == { s[i] : i \in 1..Len(s) }

RECURSIVE SortById(_)
SortById(S) ==
    IF S = {} THEN << >>
    ELSE LET first == CHOOSE o \in S : \A p \in S : o.id <= p.id
         IN  << first >> \o SortById(S \ {first})

Min(a, b) == IF a <= b THEN a ELSE b

\* Array.prototype.map
RECURSIVE MapSeq(_, _)
MapSeq(F(_), s) ==
    IF s = << >> THEN << >> ELSE << F(Head(s)) >> \o MapSeq(F, Tail(s))

(***************************************************************************)
(* JSON.  The host hands every value to map and to reduce as a JSON        *)
(* string; the script parses it.  A string is not the value it encodes.    *)
(***************************************************************************)
JSONstringify(v) == << "json", v >>

JSONparse(s) == s[2]

(***************************************************************************)
(* Exceptions: a call either returns a value or throws.                    *)
(***************************************************************************)
Return(v) == [ threw |-> FALSE, ret |-> v, error |-> "" ]

Throw(e) == [ threw |-> TRUE, ret |-> << >>, error |-> e ]

LogEntry(level, title, details) ==
    [ level |-> level, title |-> title, details |-> details ]

\* logError(title, e): the script calls it in three catch handlers and
\* defines it nowhere, so the call throws a ReferenceError and logs nothing
logError(title, e) == Throw("ReferenceError: logError is not defined")

(***************************************************************************)
(* getInputData stage.                                                     *)
(***************************************************************************)
\* getRange without its end: every hit from start on
getRangeToTheEnd(hits, start, end) == SubSeq(hits, start + 1, Len(hits))

\* searchResult.getRange({start, end}): the hits at positions start..end-1
getRange(hits, start, end) == SubSeq(hits, start + 1, Min(end, Len(hits)))

\* createSalesOrderSearch reporting an empty day with log.error
createSalesOrderSearchLogsError(hits, searchThrows) ==
    IF searchThrows
    THEN logError("createSalesOrderSearch Error", "SourceUnavailable")
         @@ [ log |-> << >> ]
    ELSE LET results == getRange(hits, RangeStart, RangeEnd)
         IN  IF Len(results) = 0
             THEN Return(<< >>) @@
                  [ log |-> << LogEntry("error", "No Sales Orders", "") >> ]
             ELSE Return(results) @@ [ log |-> << >> ]

\* createSalesOrderSearch: [threw, ret, error, log]
createSalesOrderSearch(hits, searchThrows) ==
    IF searchThrows
    THEN \* catch (e) { logError(...); throw e; } : logError itself throws
         LET l == logError("createSalesOrderSearch Error", "SourceUnavailable")
         IN  IF l.threw THEN [ l EXCEPT !.ret = << >> ] @@ [ log |-> << >> ]
             ELSE Throw("SourceUnavailable") @@ [ log |-> << >> ]
    ELSE LET results == getRange(hits, RangeStart, RangeEnd)
         IN  IF Len(results) = 0
             THEN Return(<< >>) @@
                  [ log |-> << LogEntry("debug", "No Sales Orders", "") >> ]
             ELSE Return(results) @@ [ log |-> << >> ]

\* getInputData: [threw, ret, error, log]
getInputData(hits, searchThrows) ==
    LET r == createSalesOrderSearch(hits, searchThrows)
    IN  IF r.threw
        THEN \* catch (e) { logError('getInputData Error', e); }
             LET l == logError("getInputData Error", r.error)
             IN  IF l.threw THEN l @@ [ log |-> r.log ]
                 ELSE Return(<< >>) @@ [ log |-> r.log ]
        ELSE r

(***************************************************************************)
(* map stage.                                                              *)
(***************************************************************************)
\* fetchSalesDetails with the owner read leniently (salesrep[0]?.value): an
\* order without a sales rep yields details with an empty salesRepId
fetchSalesDetailsLenient(searchResult) ==
    LET v == searchResult.values
    IN  IF \/ v.entity = << >>
           \/ v.supervisor = << >>
           \/ v.internalid = << >>
        THEN Throw("TypeError: Cannot read properties of undefined")
        ELSE Return([ documentNumber |-> v.tranid,
                      customerName   |-> v.entity[1].text,
                      date           |-> v.trandate,
                      salesAmount    |-> v.amount,
                      supervisor     |-> v.supervisor[1].value,
                      salesRepName   |-> IF v.salesrep = << >> THEN ""
                                         ELSE v.salesrep[1].text,
                      internalId     |-> v.internalid[1].value,
                      salesRepId     |-> IF v.salesrep = << >> THEN ""
                                         ELSE v.salesrep[1].value ])

\* fetchSalesDetails converting the amount with parseFloat: an amount that is
\* no number becomes NaN
fetchSalesDetailsParsedAmount(searchResult) ==
    LET v == searchResult.values
    IN  IF \/ v.salesrep = << >>
           \/ v.entity = << >>
           \/ v.supervisor = << >>
           \/ v.internalid = << >>
        THEN Throw("TypeError: Cannot read properties of undefined")
        ELSE Return([ documentNumber |-> v.tranid,
                      customerName   |-> v.entity[1].text,
                      date           |-> v.trandate,
                      salesAmount    |-> IF v.amount = "bad" THEN "NaN"
                                         ELSE v.amount,
                      supervisor     |-> v.supervisor[1].value,
                      salesRepName   |-> v.salesrep[1].text,
                      internalId     |-> v.internalid[1].value,
                      salesRepId     |-> v.salesrep[1].value ])

\* fetchSalesDetails: every [0] on an empty array is undefined, and reading
\* .value or .text of undefined throws a TypeError
fetchSalesDetails(searchResult) ==
    LET v == searchResult.values
    IN  IF \/ v.salesrep = << >>
           \/ v.entity = << >>
           \/ v.supervisor = << >>
           \/ v.internalid = << >>
        THEN Throw("TypeError: Cannot read properties of undefined")
        ELSE Return([ documentNumber |-> v.tranid,
                      customerName   |-> v.entity[1].text,
                      date           |-> v.trandate,
                      salesAmount    |-> v.amount,
                      supervisor     |-> v.supervisor[1].value,
                      salesRepName   |-> v.salesrep[1].text,
                      internalId     |-> v.internalid[1].value,
                      salesRepId     |-> v.salesrep[1].value ])

\* map writing under the supervisor instead of the sales rep
mapKeyedBySupervisor(value) ==
    LET searchResult == JSONparse(value)
        salesDetails == fetchSalesDetails(searchResult)
    IN  IF salesDetails.threw
        THEN LET l == logError("map Error", salesDetails.error)
             IN  [ threw |-> l.threw, error |-> l.error,
                   writes |-> << >>, log |-> << >> ]
        ELSE [ threw |-> FALSE, error |-> "",
               writes |-> << [ key   |-> salesDetails.ret.supervisor,
                               value |-> JSONstringify(salesDetails.ret) ] >>,
               log |-> << >> ]

\* map: [threw, error, writes, log]; writes are the mapContext.write calls
map(value) ==
    LET searchResult == JSONparse(value)
        salesDetails == fetchSalesDetails(searchResult)
    IN  IF salesDetails.threw
        THEN \* catch (e) { logError('map Error', e); }
             LET l == logError("map Error", salesDetails.error)
             IN  [ threw |-> l.threw, error |-> l.error,
                   writes |-> << >>, log |-> << >> ]
        ELSE [ threw |-> FALSE, error |-> "",
               writes |-> << [ key   |-> salesDetails.ret.salesRepId,
                               value |-> JSONstringify(salesDetails.ret) ] >>,
               log |-> << >> ]

(***************************************************************************)
(* reduce stage.                                                           *)
(***************************************************************************)
\* one table row of the e-mail body per sales order, in the order given
EmailRow(orderDetails) ==
    [ link     |-> orderDetails.internalId,
      tranid   |-> orderDetails.documentNumber,
      customer |-> orderDetails.customerName,
      date     |-> orderDetails.date,
      amount   |-> orderDetails.salesAmount ]

\* createEmailBody with the loop started at j = 1: the first order is left out
createEmailBodyFromSecond(salesOrderDetails) ==
    MapSeq(EmailRow, Tail(salesOrderDetails))

\* createEmailBody with the first order's row once more at the end
createEmailBodyRepeatsFirst(salesOrderDetails) ==
    MapSeq(EmailRow, salesOrderDetails) \o
    << EmailRow(salesOrderDetails[1]) >>

\* createEmailBody: the fixed greeting and footer around the rows
createEmailBody(salesOrderDetails) == MapSeq(EmailRow, salesOrderDetails)

\* a || b on strings: the empty string is falsy
OrElse(a, b) == IF a = "" THEN b ELSE a

\* the message of the error email.send throws when it cannot send
SendFailure == "SendFailure"

\* sendEmail without its try/catch: the error of email.send escapes it
sendEmailNoCatch(supervisorId, salesRepId, subject, body, sendThrows) ==
    [ threw |-> sendThrows, error |-> IF sendThrows THEN SendFailure ELSE "",
      calls |-> << [ author     |-> supervisorId,
                     recipients |-> salesRepId,
                     subject    |-> subject,
                     body       |-> body,
                     sent       |-> ~sendThrows ] >>,
      log   |-> IF sendThrows THEN << >>
                ELSE << LogEntry("debug", "Email Sent", salesRepId) >> ]

\* sendEmail addressing the supervisor, with the sales rep as author
sendEmailToSupervisor(supervisorId, salesRepId, subject, body, sendThrows) ==
    [ threw |-> FALSE, error |-> "",
      calls |-> << [ author     |-> salesRepId,
                     recipients |-> supervisorId,
                     subject    |-> subject,
                     body       |-> body,
                     sent       |-> ~sendThrows ] >>,
      log   |-> IF sendThrows
                THEN << LogEntry("error", "Error Sending Email", SendFailure) >>
                ELSE << LogEntry("debug", "Email Sent", salesRepId) >> ]

\* sendEmail trying a failed send a second time
sendEmailRetries(supervisorId, salesRepId, subject, body, sendThrows) ==
    LET call == [ author     |-> supervisorId,
                  recipients |-> salesRepId,
                  subject    |-> subject,
                  body       |-> body,
                  sent       |-> ~sendThrows ]
    IN  [ threw |-> FALSE, error |-> "",
          calls |-> IF sendThrows THEN << call, call >> ELSE << call >>,
          log   |-> IF sendThrows
                    THEN << LogEntry("error", "Error Sending Email",
                                     SendFailure) >>
                    ELSE << LogEntry("debug", "Email Sent", salesRepId) >> ]

\* sendEmail: [threw, error, calls, log]; calls are the email.send calls.
\* The try block logs 'Email Sent' after the send, the catch block logs the
\* error's message and swallows the error.
sendEmail(supervisorId, salesRepId, subject, body, sendThrows) ==
    [ threw |-> FALSE, error |-> "",
      calls |-> << [ author     |-> supervisorId,
                     recipients |-> salesRepId,
                     subject    |-> subject,
                     body       |-> body,
                     sent       |-> ~sendThrows ] >>,
      log   |-> IF sendThrows
                THEN << LogEntry("error", "Error Sending Email", SendFailure) >>
                ELSE << LogEntry("debug", "Email Sent", salesRepId) >> ]

\* reduce sending inside a loop over the orders: one e-mail per order
RECURSIVE SendEach(_, _, _, _)
SendEach(salesRepId, salesOrderDetails, j, sendThrows) ==
    IF j > Len(salesOrderDetails) THEN << >>
    ELSE sendEmail(OrElse(salesOrderDetails[j].supervisor, UnknownSupervisor),
                   salesRepId,
                   << salesOrderDetails[j].salesRepName, todayDate >>,
                   createEmailBody(<< salesOrderDetails[j] >>),
                   sendThrows).calls
         \o SendEach(salesRepId, salesOrderDetails, j + 1, sendThrows)

reduceSendPerOrder(key, values, sendThrows) ==
    [ threw |-> FALSE, error |-> "",
      calls |-> SendEach(key, MapSeq(JSONparse, values), 1, sendThrows),
      log   |-> << >> ]

\* reduce guarded by length > 1: a group of one order is not notified
reduceSkipsSingle(key, values, sendThrows) ==
    LET salesOrderDetails == MapSeq(JSONparse, values)
    IN  IF Len(salesOrderDetails) > 1
        THEN sendEmail(OrElse(salesOrderDetails[1].supervisor,
                              UnknownSupervisor),
                       key, << salesOrderDetails[1].salesRepName, todayDate >>,
                       createEmailBody(salesOrderDetails), sendThrows)
        ELSE [ threw |-> FALSE, error |-> "", calls |-> << >>, log |-> << >> ]

\* reduce: [threw, error, calls, log].  createEmailBody's two log.debug
\* dumps are kept by their titles.
reduce(key, values, sendThrows) ==
    LET salesRepId == key
        salesOrderDetails == MapSeq(JSONparse, values)
    IN  IF Len(salesOrderDetails) > 0
        THEN LET supervisorId ==
                     OrElse(salesOrderDetails[1].supervisor, UnknownSupervisor)
                 salesRepName == salesOrderDetails[1].salesRepName
                 body == createEmailBody(salesOrderDetails)
                 dumps == << LogEntry("debug", "Sales Order details", ""),
                             LogEntry("debug", "Body", "") >>
                 subject == << salesRepName, todayDate >>
                 s == sendEmail(supervisorId, salesRepId, subject, body,
                                sendThrows)
             IN  IF s.threw
                 THEN \* catch (e) { log.error('Error Processing Request') }
                      [ threw |-> FALSE, error |-> "", calls |-> s.calls,
                        log |-> dumps \o s.log \o
                          << LogEntry("error", "Error Processing Request",
                                      s.error) >> ]
                 ELSE [ s EXCEPT !.log = dumps \o s.log ]
        ELSE [ threw |-> FALSE, error |-> "", calls |-> << >>, log |-> << >> ]

(***************************************************************************)
(* The host: stages, key/value hand-over, grouping.                        *)
(***************************************************************************)
VARIABLES
    stage,         \* the stage the run is in
    results,       \* what getInputData returned: the map stage's input
    mapStatus,     \* per input position: pending, running, returned, raised
    mapOutput,     \* the mapContext.write calls, in the order they were made
    reduceInput,   \* key -> the values written under it, once shuffled
    reduceStatus,  \* per key: pending, running, returned, raised
    emails,        \* bag of email.send calls
    log,           \* bag of log entries
    restarts,      \* how many invocations the host has had to start again
    fetches,       \* how many times the sales order search has been run
    hitCount,      \* how many sales orders the latest search has found
    \* the employee-commission Suitelet (jj_sl_employee_commission.js)
    commissionRecords,  \* customrecord_jj_onam_commission_2023: id -> fields
    expenseReports,     \* expensereport records: id -> fields and lines
    suiteletLog,        \* bag of the Suitelet's log.debug entries
    response,           \* what the last request was answered with
    posts,              \* the number of POST requests served
    submissions,        \* employee id -> the commission last submitted
    requests            \* the POST requests being served, step by step

\* the state of the Map/Reduce run
runVars == << stage, results, mapStatus, mapOutput, reduceInput, reduceStatus,
              emails, log >>

\* the state of the Suitelet
suiteletVars ==
    << commissionRecords, expenseReports, suiteletLog, response, posts,
       submissions, requests >>

\* what a step of an uninterrupted run leaves alone
outside == << restarts, fetches, hitCount, suiteletVars >>

vars == << runVars, restarts, fetches, hitCount, suiteletVars >>

SeqToBag(s) == [ x \in Range(s) |-> Cardinality({ i \in 1..Len(s) : s[i] = x }) ]

\* the employees of the account and the requests the Suitelet is sent
EmployeeIds == { "e1", "e2", "e3" }

RequestIds == { "r1", "r2" }

\* a request that has not arrived
Idle ==
    [ pc |-> "idle", employeeId |-> "", salesAmount |-> 0,
      commissionAmount |-> 0, existing |-> 0, commissionRecordId |-> 0,
      expenseReportId |-> 0 ]

\* nothing has been submitted and no request is being served
NoRequest ==
    /\ submissions = [ employeeId \in EmployeeIds |-> 0 ]
    /\ requests = [ r \in RequestIds |-> Idle ]

\* no request has reached the Suitelet and its records are empty
SuiteletIdle ==
    /\ commissionRecords = << >>
    /\ expenseReports = << >>
    /\ suiteletLog = EmptyBag
    /\ response = "none"
    /\ posts = 0
    /\ NoRequest

\* the run before its first stage
RunInit ==
    /\ stage = "getInputData"
    /\ results = << >>
    /\ mapStatus = << >>
    /\ mapOutput = << >>
    /\ reduceInput = << >>
    /\ reduceStatus = << >>
    /\ emails = EmptyBag
    /\ log = EmptyBag
    /\ restarts = 0
    /\ fetches = 0
    /\ hitCount = 0

Init == RunInit /\ SuiteletIdle

\* the getInputData entry point, run once at the beginning of the process
GetInputData ==
    /\ stage = "getInputData"
    /\ \E today \in SUBSET Orders, searchThrows \in BOOLEAN :
         /\ Cardinality(today) <= MaxOrders
         /\ hitCount' = IF searchThrows THEN hitCount ELSE Cardinality(today)
         /\ LET r == getInputData(SortById(today), searchThrows)
            IN  /\ log' = log (+) SeqToBag(r.log)
                /\ IF r.threw
                   THEN /\ stage' = "failed"
                        /\ UNCHANGED << results, mapStatus >>
                   ELSE /\ stage' = "map"
                        /\ results' = MapSeq(JSONstringify, r.ret)
                        /\ mapStatus' = [ i \in 1..Len(r.ret) |-> "pending" ]
    /\ UNCHANGED << mapOutput, reduceInput, reduceStatus, emails >>
    /\ fetches' = fetches + 1
    /\ UNCHANGED << restarts, suiteletVars >>

\* the host starts map on one key-value pair
MapBegin(i) ==
    /\ stage = "map"
    /\ mapStatus[i] = "pending"
    /\ mapStatus' = [ mapStatus EXCEPT ![i] = "running" ]
    /\ UNCHANGED << stage, results, mapOutput, reduceInput, reduceStatus,
                    emails, log >>
    /\ UNCHANGED outside

\* the map invocation runs to its end: it returns or an error escapes it
MapEnd(i) ==
    /\ stage = "map"
    /\ mapStatus[i] = "running"
    /\ LET m == map(results[i])
       IN  /\ mapStatus' = [ mapStatus EXCEPT
                               ![i] = IF m.threw THEN "raised" ELSE "returned" ]
           /\ mapOutput' = mapOutput \o m.writes
           /\ log' = log (+) SeqToBag(m.log)
    /\ UNCHANGED << stage, results, reduceInput, reduceStatus, emails >>
    /\ UNCHANGED outside

\* a barrier that waits only for the map invocations in progress
MapStageCompleteNoneRunning ==
    \A i \in DOMAIN mapStatus : mapStatus[i] # "running"

\* "triggered automatically when the associated map stage is complete"
MapStageComplete ==
    \A i \in DOMAIN mapStatus : mapStatus[i] \in { "returned", "raised" }

\* "All values associated with a unique key that was passed to the reduce
\* stage": the written values are grouped by exact equality of their keys
\* keys compared without regard to case: "a" and "A" are one key
SameKeyIgnoringCase(k1, k2) ==
    LET upper(k) == IF k = "a" THEN "A" ELSE k
    IN  upper(k1) = upper(k2)

SameKey(k1, k2) == k1 = k2

GroupValues(output, k) ==
    LET ofKey(w) == SameKey(w.key, k)
        valueOf(w) == w.value
    IN  MapSeq(valueOf, SelectSeq(output, ofKey))

Shuffle ==
    /\ stage = "map"
    /\ MapStageComplete
    /\ stage' = "reduce"
    /\ reduceInput' = [ k \in { w.key : w \in Range(mapOutput) } |->
                          GroupValues(mapOutput, k) ]
    /\ reduceStatus' = [ k \in { w.key : w \in Range(mapOutput) } |-> "pending" ]
    /\ UNCHANGED << results, mapStatus, mapOutput, emails, log >>
    /\ UNCHANGED outside

\* the host starts reduce on one group
ReduceBegin(k) ==
    /\ stage = "reduce"
    /\ reduceStatus[k] = "pending"
    /\ reduceStatus' = [ reduceStatus EXCEPT ![k] = "running" ]
    /\ UNCHANGED << stage, results, mapStatus, mapOutput, reduceInput,
                    emails, log >>
    /\ UNCHANGED outside

\* the reduce invocation runs to its end; email.send succeeds or throws
ReduceEnd(k) ==
    /\ stage = "reduce"
    /\ reduceStatus[k] = "running"
    /\ \E sendThrows \in BOOLEAN :
         LET r == reduce(k, reduceInput[k], sendThrows)
         IN  /\ reduceStatus' = [ reduceStatus EXCEPT
                   ![k] = IF r.threw THEN "raised" ELSE "returned" ]
             /\ emails' = emails (+) SeqToBag(r.calls)
             /\ log' = log (+) SeqToBag(r.log)
    /\ UNCHANGED << stage, results, mapStatus, mapOutput, reduceInput >>
    /\ UNCHANGED outside

\* a reduce stage that is complete only when every notification was sent
ReduceStageCompleteAllSent ==
    /\ \A k \in DOMAIN reduceStatus : reduceStatus[k] \in { "returned", "raised" }
    /\ \A c \in BagToSet(emails) : c.sent

ReduceStageComplete ==
    \A k \in DOMAIN reduceStatus : reduceStatus[k] \in { "returned", "raised" }

\* summarize: "triggered automatically when the associated reduce stage is
\* complete"; its body is empty
summarize ==
    /\ stage = "reduce"
    /\ ReduceStageComplete
    /\ stage' = "done"
    /\ UNCHANGED << results, mapStatus, mapOutput, reduceInput, reduceStatus,
                    emails, log >>
    /\ UNCHANGED outside

Next ==
    \/ GetInputData
    \/ \E i \in DOMAIN mapStatus : MapBegin(i)
    \/ \E i \in DOMAIN mapStatus : MapEnd(i)
    \/ Shuffle
    \/ \E k \in DOMAIN reduceStatus : ReduceBegin(k)
    \/ \E k \in DOMAIN reduceStatus : ReduceEnd(k)
    \/ summarize

Spec == Init /\ [][Next]_vars

\* the host keeps running the stages of a started run: a run with a step to
\* take takes one
FairSpec == Spec /\ WF_vars(Next)

(***************************************************************************)
(* Restarts.  "isRestarted: if true, the current invocation is not the     *)
(* first invocation and this function has been restarted": the host starts *)
(* an interrupted invocation again on the same group.  reduce never reads  *)
(* reduceContext.isRestarted.                                              *)
(***************************************************************************)
\* the reduce invocation on k is cut off after email.send has returned and
\* before reduce returns; the host will invoke reduce on k again
ReduceRestart(k) ==
    /\ stage = "reduce"
    /\ reduceStatus[k] = "running"
    /\ restarts < MaxRestarts
    /\ restarts' = restarts + 1
    /\ LET r == reduce(k, reduceInput[k], FALSE)
           beforeReturn(e) == e.title # "Email Sent"
       IN  /\ emails' = emails (+) SeqToBag(r.calls)
           /\ log' = log (+) SeqToBag(SelectSeq(r.log, beforeReturn))
    /\ reduceStatus' = [ reduceStatus EXCEPT ![k] = "pending" ]
    /\ UNCHANGED << stage, results, mapStatus, mapOutput, reduceInput >>
    /\ UNCHANGED << fetches, hitCount, suiteletVars >>

\* the getInputData invocation is interrupted after its search has run,
\* before or after the 'No Sales Orders' entry, and before it returns: the
\* host will invoke the function again, with inputContext.isRestarted = true
GetInputDataRestart ==
    /\ stage = "getInputData"
    /\ restarts < MaxRestarts
    /\ restarts' = restarts + 1
    /\ fetches' = fetches + 1
    /\ \E today \in SUBSET Orders :
         /\ Cardinality(today) <= MaxOrders
         /\ hitCount' = Cardinality(today)
         /\ LET r == getInputData(SortById(today), FALSE)
            IN  \E written \in { << >>, r.log } :
                  log' = log (+) SeqToBag(written)
    /\ UNCHANGED << stage, results, mapStatus, mapOutput, reduceInput,
                    reduceStatus, emails >>
    /\ UNCHANGED suiteletVars

(***************************************************************************)
(* A day with about as many sales orders as the range getRange asks for.   *)
(***************************************************************************)
\* the day's n sales orders in the search's order: the order at position i
\* has internal id i; the orders up to the end of the range are Ann's, the
\* last of them without a supervisor, those beyond it are Zed's
LongDay(n) ==
    [ i \in 1..n |->
        SalesOrder(i, "SO", "Acme", "100",
                   IF i <= RangeEnd THEN Sel("A", "Ann") ELSE Sel("Z", "Zed"),
                   IF i = RangeEnd THEN Absent ELSE Sel("S1", "Sue")) ]

DayLengths == (RangeEnd - CapMargin)..(RangeEnd + CapMargin)

\* getInputData on a long day
GetInputDataLongDay ==
    /\ stage = "getInputData"
    /\ \E n \in DayLengths :
         /\ hitCount' = n
         /\ LET r == getInputData(LongDay(n), FALSE)
            IN  /\ log' = log (+) SeqToBag(r.log)
                /\ stage' = "map"
                /\ results' = [ i \in 1..Len(r.ret) |-> JSONstringify(r.ret[i]) ]
                /\ mapStatus' = [ i \in 1..Len(r.ret) |-> "pending" ]
    /\ UNCHANGED << mapOutput, reduceInput, reduceStatus, emails >>
    /\ fetches' = fetches + 1
    /\ UNCHANGED << restarts, suiteletVars >>

\* the last results of the day, the ones next to the end of the range
LastResults == { i \in DOMAIN mapStatus : i > RangeEnd - CapMargin }

\* the fetch of a long day and the map invocations on its last results
LongDayNext ==
    \/ GetInputDataLongDay
    \/ \E i \in LastResults : MapBegin(i)
    \/ \E i \in LastResults : MapEnd(i)

LongDaySpec == Init /\ [][LongDayNext]_vars

RestartNext ==
    \/ Next
    \/ \E k \in DOMAIN reduceStatus : ReduceRestart(k)
    \/ GetInputDataRestart

SpecRestart == Init /\ [][RestartNext]_vars


(***************************************************************************)
(* The employee-commission Suitelet (jj_sl_employee_commission.js).        *)
(*                                                                         *)
(* A record store is a sequence: the record with internal id n is at       *)
(* position n, and a saved new record gets the next id.  Null is the null  *)
(* of "no existing record".                                                *)
(***************************************************************************)
Null == 0

NoLink == << >>

\* the sales reps of the employee search: internalid -> entityid; two of
\* them bear the same name
Employees == [ e1 |-> "Ann", e2 |-> "Bob", e3 |-> "Ann" ]


\* search.lookupFields({type: 'employee', id, columns: ['entityid']})
lookupFields(employeeId) == [ entityid |-> Employees[employeeId] ]

\* parseFloat of a request parameter
parseFloat(param) ==
    CASE param = "1000" -> 1000
      [] param = "2000" -> 2000
      [] param = "20"   -> 20
      [] param = "40"   -> 40

\* url.resolveRecord({recordType: 'expensereport', recordId})
resolveRecord(recordId) == << "expensereport", recordId >>

\* the first result of search.run().getRange({start: 0, end: 1}): the search
\* names no order, so it is any of the matches; null when there is none
FirstResult(matches) == IF matches = {} THEN { Null } ELSE matches

\* getExistingEmployeeCommissionRecord: the records of that employee name
getExistingEmployeeCommissionRecord(records, employeeName) ==
    FirstResult({ id \in DOMAIN records :
                    records[id].custrecord_jj_employee_name = employeeName })

\* getExistingExpenseReport searching by the employee's name, which no
\* expense report carries in its entity field
getExistingExpenseReportByName(reports, employeeId) ==
    FirstResult({ id \in DOMAIN reports :
                    reports[id].entity = lookupFields(employeeId).entityid })

\* getExistingExpenseReport: the expense reports whose entity is the employee
getExistingExpenseReport(reports, employeeId) ==
    FirstResult({ id \in DOMAIN reports : reports[id].entity = employeeId })

\* createOrUpdateEmployeeCommission writing the sales amount too on update
createOrUpdateEmployeeCommissionWithSales(records, existingRecordId, employeeId, salesAmount, commissionAmount) ==
    IF existingRecordId # 0
    THEN [ records |->
             [ records EXCEPT ![existingRecordId] =
                 [ @ EXCEPT !.custrecord_jj_commission_amount = commissionAmount,
                            !.custrecord_jj_2023_sales_amount = salesAmount ] ],
           id |-> existingRecordId ]
    ELSE [ records |->
             Append(records,
                    [ custrecord_jj_employee_name       |->
                          lookupFields(employeeId).entityid,
                      custrecord_jj_2023_sales_amount   |-> salesAmount,
                      custrecord_jj_commission_amount   |-> commissionAmount,
                      custrecord_jj_expense_report_link |-> << >> ]),
           id |-> Len(records) + 1 ]

\* createOrUpdateEmployeeCommission, given what the search returned:
\* [records, id]
createOrUpdateEmployeeCommission(records, existingRecordId, employeeId, salesAmount, commissionAmount) ==
    LET employeeName == lookupFields(employeeId).entityid
    IN  IF existingRecordId # Null
        THEN [ records |->
                 [ records EXCEPT ![existingRecordId].custrecord_jj_commission_amount
                                     = commissionAmount ],
               id |-> existingRecordId ]
        ELSE [ records |->
                 Append(records,
                        [ custrecord_jj_employee_name       |-> employeeName,
                          custrecord_jj_2023_sales_amount   |-> salesAmount,
                          custrecord_jj_commission_amount   |-> commissionAmount,
                          custrecord_jj_expense_report_link |-> NoLink ]),
               id |-> Len(records) + 1 ]

\* the loop without its break: every line of category 10 gets the amount
SetEveryCommissionLine(lines, i, commissionAmount) ==
    [ j \in 1..Len(lines) |->
        IF j >= i /\ lines[j].category = CommissionCategory
        THEN [ lines[j] EXCEPT !.amount = commissionAmount ]
        ELSE lines[j] ]

\* the loop of createOrUpdateExpenseReport: the first line of category 10
\* gets the amount, then break; without such a line nothing is set
RECURSIVE SetFirstCommissionLine(_, _, _)
SetFirstCommissionLine(lines, i, commissionAmount) ==
    IF i > Len(lines) THEN lines
    ELSE IF lines[i].category = CommissionCategory
         THEN [ lines EXCEPT ![i].amount = commissionAmount ]
         ELSE SetFirstCommissionLine(lines, i + 1, commissionAmount)

\* the log.debug entries of the loop: one 'category' per line visited
RECURSIVE CategoryLog(_, _)
CategoryLog(lines, i) ==
    IF i > Len(lines) THEN << >>
    ELSE << [ title |-> "category", details |-> lines[i].category ] >> \o
         ( IF lines[i].category = CommissionCategory THEN << >>
           ELSE CategoryLog(lines, i + 1) )

\* createOrUpdateExpenseReport, given what the search returned:
\* [reports, id, log]
createOrUpdateExpenseReport(reports, existingExpenseReportId, employeeId, commissionAmount) ==
    LET found == << [ title |-> "Expense Report ID:",
                      details |-> existingExpenseReportId ],
                    [ title |-> "expense report id",
                      details |-> existingExpenseReportId ] >>
    IN  IF existingExpenseReportId # Null
        THEN LET lines == reports[existingExpenseReportId].expense
             IN  [ reports |->
                     [ reports EXCEPT ![existingExpenseReportId].expense =
                         SetFirstCommissionLine(lines, 1, commissionAmount) ],
                   id  |-> existingExpenseReportId,
                   log |-> found \o
                           << [ title |-> "line count", details |-> Len(lines) ] >>
                           \o CategoryLog(lines, 1) ]
        ELSE [ reports |->
                 Append(reports,
                        [ entity  |-> employeeId,
                          account |-> ExpenseAccount,
                          usemulticurrency |-> FALSE,
                          expense |-> << [ category |-> CommissionCategory,
                                           amount   |-> commissionAmount ] >> ]),
               id  |-> Len(reports) + 1,
               log |-> found ]

\* updateCommissionRecordWithExpenseLink leaving the record as it is
updateCommissionRecordUnlinked(records, commissionRecordId, expenseReportId) ==
    records

\* updateCommissionRecordWithExpenseLink
updateCommissionRecordWithExpenseLink(records, commissionRecordId, expenseReportId) ==
    [ records EXCEPT ![commissionRecordId].custrecord_jj_expense_report_link =
        resolveRecord(expenseReportId) ]

\* the records the account may hold before the first request: at most one
\* expense report per employee, at most one commission record per name
ExpenseReport(employeeId, lines) ==
    [ entity |-> employeeId, account |-> ExpenseAccount,
      usemulticurrency |-> FALSE, expense |-> lines ]

Line(category, amount) == [ category |-> category, amount |-> amount ]

InitialExpenseReports ==
    { << >>,
      << ExpenseReport("e1", << Line(5, 7) >>) >>,
      << ExpenseReport("e2", << Line(5, 7), Line(10, 9), Line(10, 11) >>) >>,
      << ExpenseReport("e1", << Line(5, 7) >>),
         ExpenseReport("e2", << Line(5, 7), Line(10, 9), Line(10, 11) >>) >> }

InitialCommissionRecords ==
    { << >>,
      << [ custrecord_jj_employee_name       |-> "Ann",
           custrecord_jj_2023_sales_amount   |-> 500,
           custrecord_jj_commission_amount   |-> 5,
           custrecord_jj_expense_report_link |-> NoLink ] >> }

SuiteletInit ==
    /\ RunInit
    /\ commissionRecords \in InitialCommissionRecords
    /\ expenseReports \in InitialExpenseReports
    /\ suiteletLog = EmptyBag
    /\ response = "none"
    /\ posts = 0
    /\ NoRequest

\* onRequest, GET: the form is written to the response
Get ==
    /\ response' = "form"
    /\ UNCHANGED << commissionRecords, expenseReports, suiteletLog, posts,
                    submissions, requests >>
    /\ UNCHANGED << runVars, restarts, fetches, hitCount >>

\* onRequest, POST: commission record, expense report, link, redirect
Post(employeeId, salesParam, commissionParam) ==
    /\ posts < MaxPosts
    /\ LET salesAmount == parseFloat(salesParam)
           commissionAmount == parseFloat(commissionParam)
           employeeName == lookupFields(employeeId).entityid
       IN  \E existingRecordId \in
                getExistingEmployeeCommissionRecord(commissionRecords,
                                                    employeeName),
              existingExpenseReportId \in
                getExistingExpenseReport(expenseReports, employeeId) :
             LET c == createOrUpdateEmployeeCommission(
                        commissionRecords, existingRecordId, employeeId,
                        salesAmount, commissionAmount)
                 x == createOrUpdateExpenseReport(
                        expenseReports, existingExpenseReportId, employeeId,
                        commissionAmount)
             IN  /\ commissionRecords' =
                      updateCommissionRecordWithExpenseLink(c.records, c.id, x.id)
                 /\ expenseReports' = x.reports
                 /\ suiteletLog' = suiteletLog (+) SeqToBag(x.log)
    /\ response' = "redirect"
    /\ posts' = posts + 1
    /\ submissions' = [ submissions EXCEPT
                          ![employeeId] = parseFloat(commissionParam) ]
    /\ UNCHANGED requests
    /\ UNCHANGED << runVars, restarts, fetches, hitCount >>

SuiteletNext ==
    \/ Get
    \/ \E employeeId \in EmployeeIds,
          salesParam \in { "1000", "2000" },
          commissionParam \in { "20", "40" } :
         Post(employeeId, salesParam, commissionParam)

SuiteletSpec == SuiteletInit /\ [][SuiteletNext]_vars

(***************************************************************************)
(* onRequest's POST branch step by step: each search and each record       *)
(* operation is one step, so that the order of the steps shows and the     *)
(* steps of two requests can interleave.                                   *)
(***************************************************************************)
At(r, pc) == requests[r].pc = pc

Goto(r, pc) == [ requests[r] EXCEPT !.pc = pc ]

\* the request arrives: its parameters are read and parsed
Receive(r, employeeId, salesParam, commissionParam) ==
    /\ At(r, "idle")
    /\ requests' = [ requests EXCEPT ![r] =
                       [ Idle EXCEPT !.pc = "received",
                                     !.employeeId = employeeId,
                                     !.salesAmount = parseFloat(salesParam),
                                     !.commissionAmount =
                                         parseFloat(commissionParam) ] ]
    /\ submissions' = [ submissions EXCEPT
                          ![employeeId] = parseFloat(commissionParam) ]
    /\ UNCHANGED << commissionRecords, expenseReports, suiteletLog, response,
                    posts >>
    /\ UNCHANGED << runVars, restarts, fetches, hitCount >>

\* the request arrives while no other request is being served
SequentialReceive(r, employeeId, salesParam, commissionParam) ==
    /\ \A other \in RequestIds : requests[other].pc \in { "idle", "redirected" }
    /\ Receive(r, employeeId, salesParam, commissionParam)

\* createOrUpdateEmployeeCommission: lookupFields and the search by name
SearchCommission(r) ==
    /\ At(r, "received")
    /\ \E existingRecordId \in
            getExistingEmployeeCommissionRecord(
                commissionRecords,
                lookupFields(requests[r].employeeId).entityid) :
         requests' = [ requests EXCEPT ![r] =
                         [ Goto(r, "commissionSearched") EXCEPT
                             !.existing = existingRecordId ] ]
    /\ UNCHANGED << commissionRecords, expenseReports, suiteletLog, response,
                    posts, submissions >>
    /\ UNCHANGED << runVars, restarts, fetches, hitCount >>

\* createOrUpdateEmployeeCommission: submitFields, or create and save
SaveCommission(r) ==
    /\ At(r, "commissionSearched")
    /\ LET c == createOrUpdateEmployeeCommission(
                  commissionRecords, requests[r].existing,
                  requests[r].employeeId, requests[r].salesAmount,
                  requests[r].commissionAmount)
       IN  /\ commissionRecords' = c.records
           /\ requests' = [ requests EXCEPT ![r] =
                              [ Goto(r, "commissionSaved") EXCEPT
                                  !.commissionRecordId = c.id ] ]
    /\ UNCHANGED << expenseReports, suiteletLog, response, posts, submissions >>
    /\ UNCHANGED << runVars, restarts, fetches, hitCount >>

\* createOrUpdateExpenseReport: the search by entity and its two log entries
SearchExpense(r) ==
    /\ At(r, "commissionSaved")
    /\ \E existingExpenseReportId \in
            getExistingExpenseReport(expenseReports, requests[r].employeeId) :
         /\ requests' = [ requests EXCEPT ![r] =
                            [ Goto(r, "expenseSearched") EXCEPT
                                !.existing = existingExpenseReportId ] ]
         /\ suiteletLog' = suiteletLog (+) SeqToBag(
              << [ title |-> "Expense Report ID:",
                   details |-> existingExpenseReportId ],
                 [ title |-> "expense report id",
                   details |-> existingExpenseReportId ] >>)
    /\ UNCHANGED << commissionRecords, expenseReports, response, posts,
                    submissions >>
    /\ UNCHANGED << runVars, restarts, fetches, hitCount >>

\* createOrUpdateExpenseReport: load, set the line and save, or create and
\* save
SaveExpense(r) ==
    /\ At(r, "expenseSearched")
    /\ LET x == createOrUpdateExpenseReport(
                  expenseReports, requests[r].existing,
                  requests[r].employeeId, requests[r].commissionAmount)
       IN  /\ expenseReports' = x.reports
           /\ suiteletLog' = suiteletLog (+)
                             SeqToBag(SubSeq(x.log, 3, Len(x.log)))
           /\ requests' = [ requests EXCEPT ![r] =
                              [ Goto(r, "expenseSaved") EXCEPT
                                  !.expenseReportId = x.id ] ]
    /\ UNCHANGED << commissionRecords, response, posts, submissions >>
    /\ UNCHANGED << runVars, restarts, fetches, hitCount >>

\* updateCommissionRecordWithExpenseLink
LinkExpense(r) ==
    /\ At(r, "expenseSaved")
    /\ commissionRecords' =
         updateCommissionRecordWithExpenseLink(
             commissionRecords, requests[r].commissionRecordId,
             requests[r].expenseReportId)
    /\ requests' = [ requests EXCEPT ![r] = Goto(r, "linked") ]
    /\ UNCHANGED << expenseReports, suiteletLog, response, posts, submissions >>
    /\ UNCHANGED << runVars, restarts, fetches, hitCount >>

\* redirect.toSuitelet: the request is answered
Redirect(r) ==
    /\ At(r, "linked")
    /\ response' = "redirect"
    /\ posts' = posts + 1
    /\ requests' = [ requests EXCEPT ![r] = Goto(r, "redirected") ]
    /\ UNCHANGED << commissionRecords, expenseReports, suiteletLog,
                    submissions >>
    /\ UNCHANGED << runVars, restarts, fetches, hitCount >>

\* requests served one after the other
SequentialNext ==
    \/ \E r \in RequestIds, employeeId \in EmployeeIds,
          salesParam \in { "1000", "2000" },
          commissionParam \in { "20", "40" } :
         SequentialReceive(r, employeeId, salesParam, commissionParam)
    \/ \E r \in RequestIds : SearchCommission(r)
    \/ \E r \in RequestIds : SaveCommission(r)
    \/ \E r \in RequestIds : SearchExpense(r)
    \/ \E r \in RequestIds : SaveExpense(r)
    \/ \E r \in RequestIds : LinkExpense(r)
    \/ \E r \in RequestIds : Redirect(r)

SequentialSpec == SuiteletInit /\ [][SequentialNext]_vars

\* requests served at the same time: their steps interleave
ConcurrentNext ==
    \/ \E r \in RequestIds, employeeId \in EmployeeIds,
          salesParam \in { "1000", "2000" },
          commissionParam \in { "20", "40" } :
         Receive(r, employeeId, salesParam, commissionParam)
    \/ \E r \in RequestIds : SearchCommission(r)
    \/ \E r \in RequestIds : SaveCommission(r)
    \/ \E r \in RequestIds : SearchExpense(r)
    \/ \E r \in RequestIds : SaveExpense(r)
    \/ \E r \in RequestIds : LinkExpense(r)
    \/ \E r \in RequestIds : Redirect(r)

ConcurrentSpec == SuiteletInit /\ [][ConcurrentNext]_vars

(***************************************************************************)
(* What a state shows: the functions of the state the properties read.     *)
(***************************************************************************)
\* the search results the run fetched, by input position
InputRecord(i) == JSONparse(results[i])

HasOwner(i) == InputRecord(i).values.salesrep # << >>

OwnerOf(i) == InputRecord(i).values.salesrep[1].value

\* the positions whose map invocation ended with an error: extraction failed
ExtractionFailed(i) == mapStatus[i] = "raised"

\* the salesDetails objects map wrote, and those handed to reduce under k
WrittenFacts == { JSONparse(w.value) : w \in Range(mapOutput) }

GroupFacts(k) == MapSeq(JSONparse, reduceInput[k])

\* the email.send calls, and how many of them satisfy P
Calls == BagToSet(emails)

CountCalls(P(_)) ==
    BagCardinality([ c \in { d \in Calls : P(d) } |-> emails[c] ])

CallsTo(k) == LET to(c) == c.recipients = k IN CountCalls(to)

CountLog(level, title) ==
    BagCardinality([ e \in { d \in BagToSet(log) :
                               d.level = level /\ d.title = title } |-> log[e] ])

Shuffled == stage \in { "reduce", "done" }

\* the run has ended, or the host has a step to take
Progresses == stage \in { "done", "failed" } \/ ENABLED Next

(***************************************************************************)
(* C1.  In a run, every key receives at most one notification: every       *)
(* written Fact is in the values of exactly one group, every group is      *)
(* reduced into at most one summary, and at most one email.send call is    *)
(* made per key.                                                           *)
(***************************************************************************)
C1_AtMostOneNotificationPerKey ==
    /\ \A c \in Calls : CallsTo(c.recipients) <= 1
    /\ Shuffled =>
         /\ \A k \in DOMAIN reduceInput : CallsTo(k) <= 1
         /\ \A f \in WrittenFacts :
              Cardinality({ k \in DOMAIN reduceInput :
                              f \in Range(GroupFacts(k)) }) = 1
         /\ \A k \in DOMAIN reduceInput :
              reduceStatus[k] = "pending" => CallsTo(k) = 0

\* a finished run that notified a group of two orders, once
C1_Witness ==
    /\ stage = "done"
    /\ \E k \in DOMAIN reduceInput : Len(reduceInput[k]) >= 2 /\ CallsTo(k) = 1

(***************************************************************************)
(* C2.  When the run has finished, the number of notifications handed to   *)
(* the dispatcher is the number of distinct owners among the input records *)
(* minus the number of owners all of whose records failed extraction.      *)
(***************************************************************************)
InputKeys == { OwnerOf(i) : i \in { j \in DOMAIN results : HasOwner(j) } }

KeysAllFailed ==
    { k \in InputKeys :
        \A i \in DOMAIN results :
          (HasOwner(i) /\ OwnerOf(i) = k) => ExtractionFailed(i) }

C2_NotificationCount ==
    stage = "done" =>
      BagCardinality(emails) = Cardinality(InputKeys) - Cardinality(KeysAllFailed)

\* a finished run with two notifications and an owner whose orders all failed
C2_Witness ==
    /\ stage = "done"
    /\ KeysAllFailed # {}
    /\ BagCardinality(emails) = 2

(***************************************************************************)
(* C3.  No error leaves the map or the reduce function: every map          *)
(* invocation returns, also on a record fetchSalesDetails throws on, and   *)
(* every reduce invocation returns.                                        *)
(***************************************************************************)
C3_NoErrorEscapesMapOrReduce ==
    /\ \A i \in DOMAIN mapStatus : mapStatus[i] # "raised"
    /\ \A k \in DOMAIN reduceStatus : reduceStatus[k] # "raised"

(***************************************************************************)
(* C4.  Per-unit isolation: when the run has finished, the keys notified   *)
(* and the rows of each notification are those of the records whose        *)
(* extraction succeeded, as if the failing records were not in the input.  *)
(***************************************************************************)
GoodPositions == { i \in DOMAIN results : ~ExtractionFailed(i) }

\* the row a search result is shown as, read off the search result itself
RowOfRecord(r) ==
    [ link     |-> r.values.internalid[1].value,
      tranid   |-> r.values.tranid,
      customer |-> r.values.entity[1].text,
      date     |-> r.values.trandate,
      amount   |-> r.values.amount ]

ExpectedKeys == { OwnerOf(i) : i \in GoodPositions }

ExpectedRows(k) ==
    { RowOfRecord(InputRecord(i)) : i \in { j \in GoodPositions : OwnerOf(j) = k } }

C4_PerUnitIsolation ==
    stage = "done" =>
      /\ { c.recipients : c \in Calls } = ExpectedKeys
      /\ \A c \in Calls :
           /\ Range(c.body) = ExpectedRows(c.recipients)
           /\ Len(c.body) = Cardinality(ExpectedRows(c.recipients))

\* a finished run in which an owner lost one order to a failed extraction and
\* was notified of the other, and another owner was notified too
C4_Witness ==
    /\ stage = "done"
    /\ \E i \in DOMAIN results, c \in Calls :
         /\ HasOwner(i) /\ ExtractionFailed(i)
         /\ c.recipients = OwnerOf(i)
         /\ Len(c.body) >= 1
    /\ Cardinality({ c.recipients : c \in Calls }) >= 2

(***************************************************************************)
(* C5.  A record with no owner (no salesrep) ends as an extraction         *)
(* failure, writes nothing into the grouping stage, and the run goes on to *)
(* its end.                                                                *)
(***************************************************************************)
Ownerless == { i \in DOMAIN results : ~HasOwner(i) }

Carries(f) == f.supervisor # ""

FirstCarried(facts) ==
    IF \E j \in 1..Len(facts) : Carries(facts[j])
    THEN facts[CHOOSE j \in 1..Len(facts) :
                 /\ Carries(facts[j])
                 /\ \A h \in 1..(j - 1) : ~Carries(facts[h])].supervisor
    ELSE UnknownSupervisor

C6_ApproverIsFirstCarried ==
    \A c \in Calls :
      c.recipients \in DOMAIN reduceInput =>
        c.author = FirstCarried(GroupFacts(c.recipients))

(***************************************************************************)
(* C7.  The orders of owners A, A, B with amounts 100, 50, 200 and         *)
(* supervisors S1, S1, none end in exactly two notifications: A's from S1  *)
(* with the rows of 100 and 50, B's from the sentinel with one row of 200. *)
(***************************************************************************)
ScenarioAAB ==
    /\ Len(results) = 3
    /\ { InputRecord(i).id : i \in DOMAIN results } = { 1, 2, 3 }

C7_AbsentSupervisorScenario ==
    (stage = "done" /\ ScenarioAAB) =>
      /\ BagCardinality(emails) = 2
      /\ \E c \in Calls :
           /\ c.recipients = "A" /\ c.author = "S1"
           /\ { row.amount : row \in Range(c.body) } = { "100", "50" }
           /\ Len(c.body) = 2
      /\ \E c \in Calls :
           /\ c.recipients = "B" /\ c.author = UnknownSupervisor
           /\ \A row \in Range(c.body) : row.amount = "200"
           /\ Len(c.body) = 1

(***************************************************************************)
(* C8.  A send failure for a group is logged and swallowed: the reduce     *)
(* invocation returns, every other group is still handed to the            *)
(* dispatcher, and the run goes on to its end.                             *)
(***************************************************************************)
FailedSend(c) == ~c.sent

C8_SendFailureIsIsolated ==
    /\ CountLog("error", "Error Sending Email") = CountCalls(FailedSend)
    /\ CountLog("error", "Error Processing Request") = 0
    /\ \A k \in DOMAIN reduceStatus : reduceStatus[k] # "raised"
    /\ stage = "done" => \A k \in DOMAIN reduceInput : CallsTo(k) = 1
    /\ (\E c \in Calls : FailedSend(c)) => Progresses

\* a finished run in which one group's send failed and another's succeeded
C8_Witness ==
    /\ stage = "done"
    /\ \E c, d \in Calls :
         /\ FailedSend(c) /\ d.sent
         /\ c.recipients # d.recipients

(***************************************************************************)
(* C9.  Grouping: two written Facts are in the values of the same reduce   *)
(* invocation exactly when their salesRepId is the same string, whatever   *)
(* the order the map invocations ran in; every Fact is in one.             *)
(***************************************************************************)
Together(f1, f2) ==
    \E k \in DOMAIN reduceInput :
      f1 \in Range(GroupFacts(k)) /\ f2 \in Range(GroupFacts(k))

C9_GroupedByExactKey ==
    Shuffled =>
      /\ \A f1, f2 \in WrittenFacts :
           (f1.salesRepId = f2.salesRepId) <=> Together(f1, f2)
      /\ \A k \in DOMAIN reduceInput :
           \A f \in Range(GroupFacts(k)) : f.salesRepId = k

\* three groups, two of them differing in case only, one holding two Facts
C9_Witness ==
    /\ Shuffled
    /\ { "A", "a" } \subseteq DOMAIN reduceInput
    /\ \E k \in DOMAIN reduceInput : Len(reduceInput[k]) >= 2

(***************************************************************************)
(* C10.  Shuffle barrier: no reduce invocation has begun while a map       *)
(* invocation is pending or in progress, and a reduce invocation is handed *)
(* every value written under its key.                                      *)
(***************************************************************************)
WrittenUnder(k) == { w.value : w \in { x \in Range(mapOutput) : x.key = k } }

C10_ShuffleBarrier ==
    \A k \in DOMAIN reduceStatus :
      reduceStatus[k] # "pending" =>
        /\ \A i \in DOMAIN mapStatus : mapStatus[i] \in { "returned", "raised" }
        /\ Range(reduceInput[k]) = WrittenUnder(k)
        /\ Len(reduceInput[k]) = Cardinality(WrittenUnder(k))

\* a reduce invocation in progress on a group of two values
C10_Witness ==
    \E k \in DOMAIN reduceStatus :
      reduceStatus[k] = "running" /\ Len(reduceInput[k]) >= 2


(***************************************************************************)
(* C11.  A fetch that finds no sales order ends the run without work: no   *)
(* map and no reduce invocation, no Fact, no notification, and nothing in  *)
(* the error log.                                                          *)
(***************************************************************************)
Fetched == stage \in { "map", "reduce", "done" }

ErrorEntries == { e \in BagToSet(log) : e.level = "error" }

C11_EmptyFetchIsANoOp ==
    (Fetched /\ results = << >>) =>
      /\ DOMAIN mapStatus = {}
      /\ mapOutput = << >>
      /\ DOMAIN reduceStatus = {}
      /\ emails = EmptyBag
      /\ ErrorEntries = {}
      /\ Progresses

\* the run of an empty day at its end, 'No Sales Orders' in the debug log
C11_Witness ==
    /\ stage = "done"
    /\ results = << >>
    /\ CountLog("debug", "No Sales Orders") = 1

(***************************************************************************)
(* C12.  A run whose only record has a malformed amount.  As claimed: one  *)
(* extraction failure is logged, no Fact is written, no notification is    *)
(* dispatched and the run reaches its end.                                 *)
(***************************************************************************)
MalformedAmount(r) == r.values.amount = "bad"

OnlyMalformedAmount ==
    /\ Fetched
    /\ Len(results) = 1
    /\ MalformedAmount(InputRecord(1))

SentTo(k) == LET sentTo(c) == c.sent /\ c.recipients = k IN CountCalls(sentTo)

C13_NoSecondNotificationOnRestart ==
    /\ \A c \in Calls : SentTo(c.recipients) <= 1
    /\ (stage = "done" /\ restarts = 0) =>
         \A k \in DOMAIN reduceInput : CallsTo(k) = 1

(***************************************************************************)
(* C14.  A fetch failure is fatal and logged: when the search fails, the   *)
(* failure is in the log, the run stops in its first stage, and no map     *)
(* invocation, no reduce invocation and no notification occurs.            *)
(***************************************************************************)
FetchFailed == stage = "failed"

NothingRan ==
    /\ results = << >>
    /\ mapOutput = << >>
    /\ DOMAIN reduceInput = {}
    /\ emails = EmptyBag

C14_FetchFailureIsLoggedAndFatal ==
    FetchFailed => ( ErrorEntries # {} /\ NothingRan )

(***************************************************************************)
(* C15.  Who a group's notification goes to.  As claimed: in every         *)
(* email.send call made for group k the recipient is the supervisor        *)
(* derived for k.  As coded: the recipient is the owner k itself and the   *)
(* derived supervisor is the author.                                       *)
(***************************************************************************)
ApproverOf(k) == OrElse(GroupFacts(k)[1].supervisor, UnknownSupervisor)

\* the groups a call can have been made for: those its body was built from
GroupsOfCall(c) ==
    { k \in DOMAIN reduceInput : c.body = createEmailBody(GroupFacts(k)) }

C15_RecipientIsSupervisor ==
    \A c \in Calls :
        /\ GroupsOfCall(c) # {}
        /\ \A k \in GroupsOfCall(c) : c.recipients = ApproverOf(k)

C15_RecipientIsOwner ==
    \A c \in Calls :
        /\ GroupsOfCall(c) # {}
        /\ \A k \in GroupsOfCall(c) :
             /\ c.recipients = k
             /\ c.author = ApproverOf(k)

C15_Witness ==
    \E c \in Calls :
        /\ c.sent
        /\ c.author # UnknownSupervisor
        /\ c.recipients \in DOMAIN reduceInput

(***************************************************************************)
(* C16.  Every failure is logged with its unit: a failed fetch, a failed   *)
(* extraction and a failed send each leave an error entry in the log, and  *)
(* the entry of a failed send names the group key of the send.             *)
(***************************************************************************)
Names(e, unit) == e.details = unit

C16_EveryFailureIsLoggedWithItsUnit ==
    /\ FetchFailed =>
         \E e \in ErrorEntries : e.title = "getInputData Error"
    /\ \A i \in DOMAIN mapStatus :
         ExtractionFailed(i) => \E e \in ErrorEntries : e.title = "map Error"
    /\ \A c \in Calls :
         FailedSend(c) =>
           \E e \in ErrorEntries :
               e.title = "Error Sending Email" /\ Names(e, c.recipients)

(***************************************************************************)
(* C17.  Order independence of the aggregation: for every group and every  *)
(* permutation of the order in which its values arrive at reduce, the      *)
(* author (approver), the subject (owner name and day) and the set of rows *)
(* of the notification are the same.                                       *)
(***************************************************************************)
Arrivals(values) ==
    LET n == Len(values)
        bijections == { p \in [ 1..n -> 1..n ] :
                          \A a, b \in 1..n : p[a] = p[b] => a = b }
    IN  { [ j \in 1..n |-> values[p[j]] ] : p \in bijections }

SameNotification(c1, c2) ==
    /\ c1.author = c2.author
    /\ c1.recipients = c2.recipients
    /\ c1.subject = c2.subject
    /\ Range(c1.body) = Range(c2.body)

C17_ArrivalOrderIndependent ==
    \A k \in DOMAIN reduceInput :
      \A values \in Arrivals(reduceInput[k]) :
        LET c1 == reduce(k, reduceInput[k], FALSE).calls
            c2 == reduce(k, values, FALSE).calls
        IN  /\ Len(c1) = Len(c2)
            /\ \A j \in 1..Len(c1) : SameNotification(c1[j], c2[j])

(***************************************************************************)
(* C18.  Row completeness: the body of a group's notification has exactly  *)
(* one row per Fact of the group, in arrival order: the j-th row shows the *)
(* search result the j-th value of the group was extracted from, and that  *)
(* search result is an order of the group's owner.                         *)
(***************************************************************************)
\* the position of the search result a Fact was extracted from
SourceOf(f) ==
    CHOOSE i \in DOMAIN results :
        /\ InputRecord(i).values.internalid # << >>
        /\ InputRecord(i).values.internalid[1].value = f.internalId

C18_OneRowPerFactInArrivalOrder ==
    \A c \in Calls :
      c.recipients \in DOMAIN reduceInput =>
        LET facts == GroupFacts(c.recipients)
        IN  /\ Len(c.body) = Len(facts)
            /\ \A j \in 1..Len(facts) :
                 /\ c.body[j] = RowOfRecord(InputRecord(SourceOf(facts[j])))
                 /\ OwnerOf(SourceOf(facts[j])) = c.recipients
            /\ \A j, h \in 1..Len(c.body) :
                 SourceOf(facts[j]) = SourceOf(facts[h]) => j = h

\* a notification of two rows or more, sent while another group exists
C18_Witness ==
    \E c \in Calls :
        /\ c.recipients \in DOMAIN reduceInput
        /\ Len(c.body) >= 2
        /\ c.body[1] # c.body[2]
        /\ Cardinality(DOMAIN reduceInput) >= 2

(***************************************************************************)
(* C19.  Termination: under fair scheduling a run that fetched at least    *)
(* one search result reaches the end of summarize, and at that point every *)
(* group has been handed to reduce exactly once (one invocation ended, one *)
(* email.send call), whether extractions and sends failed or not.          *)
(***************************************************************************)
StartedWithInput == stage = "map" /\ results # << >>

EveryGroupReducedOnce ==
    \A k \in DOMAIN reduceInput :
        /\ reduceStatus[k] \in { "returned", "raised" }
        /\ CallsTo(k) = 1

C19_Termination ==
    /\ StartedWithInput ~> (stage = "done")
    /\ [](stage = "done" => EveryGroupReducedOnce)

\* a finished run with a failed extraction, a failed send and a sent one
C19_Witness ==
    /\ stage = "done"
    /\ \E i \in DOMAIN mapStatus : ExtractionFailed(i)
    /\ \E c \in Calls : FailedSend(c)
    /\ \E c \in Calls : c.sent

(***************************************************************************)
(* C20.  Suitelet: after any sequence of POST requests served one after    *)
(* the other, from records with at most one expense report per employee,   *)
(* there is at most one expense report per employee; a POST for an         *)
(* employee who has an expense report changes that report and creates no   *)
(* new one.                                                                *)
(***************************************************************************)
ReportsOf(reports, employeeId) ==
    { id \in DOMAIN reports : reports[id].entity = employeeId }

AtMostOneReportPerEmployee ==
    \A employeeId \in EmployeeIds :
        Cardinality(ReportsOf(expenseReports, employeeId)) <= 1

\* a step that serves a POST creates a report only for an employee without
\* one, and leaves every other employee's reports as they were
PostUpdatesInPlace ==
    posts' = posts + 1 =>
      /\ Len(expenseReports') <= Len(expenseReports) + 1
      /\ \A id \in DOMAIN expenseReports :
           expenseReports'[id].entity = expenseReports[id].entity
      /\ Len(expenseReports') = Len(expenseReports) + 1 =>
           ReportsOf(expenseReports,
                     expenseReports'[Len(expenseReports')].entity) = {}

C20_OneExpenseReportPerEmployee ==
    /\ []AtMostOneReportPerEmployee
    /\ [][PostUpdatesInPlace]_vars

\* two POST requests served and a single expense report: the later request
\* found the report and did not create a second one
C20_Witness ==
    /\ posts = 2
    /\ Len(expenseReports) = 1
    /\ Len(commissionRecords) >= 1

(***************************************************************************)
(* C21.  Suitelet: after any sequence of POST requests served one after    *)
(* the other, every employee a commission was submitted for has exactly    *)
(* one commission record, shared with no other such employee, and it holds *)
(* the commission amount of the employee's latest submission; also when    *)
(* two employees bear the same name.                                       *)
(***************************************************************************)
Submitted == { employeeId \in EmployeeIds : submissions[employeeId] # 0 }

\* the commission records the Suitelet finds for an employee
RecordsOf(employeeId) ==
    { id \in DOMAIN commissionRecords :
        commissionRecords[id].custrecord_jj_employee_name =
          lookupFields(employeeId).entityid }

C21_OwnCommissionRecordHoldsLatest ==
    \A employeeId \in Submitted :
        /\ Cardinality(RecordsOf(employeeId)) = 1
        /\ \A id \in RecordsOf(employeeId) :
             commissionRecords[id].custrecord_jj_commission_amount =
               submissions[employeeId]
        /\ \A other \in Submitted \ { employeeId } :
             RecordsOf(other) \cap RecordsOf(employeeId) = {}

(***************************************************************************)
(* C22.  Routing at the end of the map stage: every search result fetched  *)
(* has become exactly one Fact or one reported extraction failure.  Each   *)
(* map invocation writes at most one pair and only once its extraction has *)
(* succeeded, and when the map stage is over the number of Facts plus the  *)
(* number of extraction failures in the log is the number of results.      *)
(***************************************************************************)
\* the pairs written for the search result at position i
WritesOf(i) ==
    { j \in DOMAIN mapOutput :
        /\ InputRecord(i).values.internalid # << >>
        /\ JSONparse(mapOutput[j].value).internalId =
             InputRecord(i).values.internalid[1].value }

AtMostOneWriteAfterExtraction ==
    \A i \in DOMAIN results :
        /\ Cardinality(WritesOf(i)) <= 1
        /\ mapStatus[i] # "returned" => WritesOf(i) = {}

ReportedExtractionFailures == CountLog("error", "map Error")

C22_EveryRecordRouted ==
    /\ AtMostOneWriteAfterExtraction
    /\ Shuffled =>
         Len(mapOutput) + ReportedExtractionFailures = Len(results)

(***************************************************************************)
(* C23.  No retry within a run: a map invocation that has ended, with a    *)
(* return or with an error, is not run again, and email.send is called at  *)
(* most once per key, also when the send failed.                           *)
(***************************************************************************)
Ended(status) == status \in { "returned", "raised" }

NoSecondInvocation ==
    /\ \A i \in DOMAIN mapStatus :
         Ended(mapStatus[i]) =>
           /\ i \in DOMAIN mapStatus'
           /\ mapStatus'[i] = mapStatus[i]
    /\ \A k \in DOMAIN reduceStatus :
         Ended(reduceStatus[k]) =>
           /\ k \in DOMAIN reduceStatus'
           /\ reduceStatus'[k] = reduceStatus[k]
           /\ CallsTo(k)' = CallsTo(k)

C23_NoRetryWithinARun ==
    /\ [](\A c \in Calls : CallsTo(c.recipients) <= 1)
    /\ [](Len(mapOutput) <= Len(results))
    /\ [][NoSecondInvocation]_vars

\* a finished run in which an extraction failed and a send failed, once
C23_Witness ==
    /\ stage = "done"
    /\ \E i \in DOMAIN mapStatus : mapStatus[i] = "raised"
    /\ \E c \in Calls : ~c.sent /\ CallsTo(c.recipients) = 1

(***************************************************************************)
(* C24.  A restart does not fetch again: when getInputData is invoked      *)
(* again after an interruption (isRestarted = true) the sales order search *)
(* is not run a second time, and no search result is mapped twice.         *)
(***************************************************************************)
C24_NoRefetchOnRestart ==
    /\ fetches <= 1
    /\ \A i \in DOMAIN results : Cardinality(WritesOf(i)) <= 1

(***************************************************************************)
(* C25.  Reduce invocations run side by side for distinct keys, never for  *)
(* the same key: whatever invocations are in progress, each aggregates     *)
(* Facts of its own key only and no value is under aggregation in two of   *)
(* them, so at most one aggregation is in progress per key.                *)
(***************************************************************************)
InProgress == { k \in DOMAIN reduceStatus : reduceStatus[k] = "running" }

LinkOf(id) == commissionRecords[id].custrecord_jj_expense_report_link

Linked(r) ==
    /\ requests[r].commissionRecordId \in DOMAIN commissionRecords
    /\ requests[r].expenseReportId \in DOMAIN expenseReports
    /\ LinkOf(requests[r].commissionRecordId) =
         resolveRecord(requests[r].expenseReportId)

\* some commission record's link is not what it was
LinkChanges ==
    \E id \in DOMAIN commissionRecords :
        commissionRecords'[id].custrecord_jj_expense_report_link # LinkOf(id)

CommissionThenExpenseThenLink ==
    /\ expenseReports' # expenseReports =>
         \E r \in RequestIds :
             /\ At(r, "expenseSearched")
             /\ requests[r].commissionRecordId \in DOMAIN commissionRecords
    /\ LinkChanges =>
         \E r \in RequestIds :
             /\ At(r, "expenseSaved")
             /\ requests[r].expenseReportId \in DOMAIN expenseReports
    /\ posts' = posts + 1 =>
         /\ response' = "redirect"
         /\ \E r \in RequestIds :
              At(r, "linked") /\ requests'[r].pc = "redirected" /\ Linked(r)

C26_LinkedBeforeRedirect == [][CommissionThenExpenseThenLink]_vars

\* both requests answered, the later one for an employee whose commission
\* record existed and whose expense report did not
C26_Witness ==
    /\ \A r \in RequestIds : At(r, "redirected")
    /\ \E r \in RequestIds :
         /\ Linked(r)
         /\ requests[r].commissionRecordId < Len(commissionRecords)
         /\ requests[r].expenseReportId = Len(expenseReports)
         /\ Len(expenseReports) >= 2

(***************************************************************************)
(* C27.  Suitelet: when the steps of two POST requests for the same        *)
(* employee interleave, there is still at most one expense report and at   *)
(* most one commission record for that employee.                           *)
(***************************************************************************)
C27_NoDuplicateWhenInterleaved ==
    \A employeeId \in EmployeeIds :
        /\ Cardinality(ReportsOf(expenseReports, employeeId)) <= 1
        /\ Cardinality(RecordsOf(employeeId)) <= 1

(***************************************************************************)
(* C28.  A run handles at most the first 1000 sales orders of the day's    *)
(* search: the map stage's input is the search result up to position 1000, *)
(* in order; an order beyond it is handed to no map invocation, becomes    *)
(* neither a Fact nor a failure, and its owner's key is never written.     *)
(***************************************************************************)
BeyondRange(f) == f.internalId > RangeEnd

C28_FirstThousandOnly ==
    Fetched =>
      /\ Len(results) = Min(hitCount, RangeEnd)
      /\ \A i \in DOMAIN results : InputRecord(i) = LongDay(hitCount)[i]
      /\ DOMAIN mapStatus = DOMAIN results
      /\ \A j \in DOMAIN mapOutput :
           /\ ~BeyondRange(JSONparse(mapOutput[j].value))
           /\ mapOutput[j].key # "Z"

\* a day of more than 1000 orders whose results 999 and 1000 were mapped,
\* the one to a Fact and the other to a failure
C28_Witness ==
    /\ hitCount > RangeEnd
    /\ Len(results) = RangeEnd
    /\ mapStatus[RangeEnd] = "raised"
    /\ mapStatus[RangeEnd - 1] = "returned"

(***************************************************************************)
(* C29.  Suitelet: when a POST finds an expense report of the employee,    *)
(* the save changes the amount of the report's first line of category 10   *)
(* to the submitted commission and nothing else: every other line stays,   *)
(* no line is added, and a report without a line of category 10 is saved   *)
(* as it was.                                                              *)
(***************************************************************************)
HasCommissionLine(lines) ==
    \E j \in 1..Len(lines) : lines[j].category = CommissionCategory

FirstCommissionLine(lines) ==
    CHOOSE j \in 1..Len(lines) :
        /\ lines[j].category = CommissionCategory
        /\ \A h \in 1..(j - 1) : lines[h].category # CommissionCategory

\* the request r saves the expense report it has found
SavesFound(r) ==
    /\ At(r, "expenseSearched")
    /\ requests'[r].pc = "expenseSaved"
    /\ requests[r].existing # Null

OnlyFirstCommissionLineSet ==
    \A r \in RequestIds :
      SavesFound(r) =>
        LET id  == requests[r].existing
            old == expenseReports[id].expense
            new == expenseReports'[id].expense
        IN  /\ DOMAIN expenseReports' = DOMAIN expenseReports
            /\ \A other \in DOMAIN expenseReports \ { id } :
                 expenseReports'[other] = expenseReports[other]
            /\ [ expenseReports'[id] EXCEPT !.expense = old ] = expenseReports[id]
            /\ Len(new) = Len(old)
            /\ \A j \in 1..Len(old) :
                 IF HasCommissionLine(old) /\ j = FirstCommissionLine(old)
                 THEN /\ new[j].category = CommissionCategory
                      /\ new[j].amount = requests[r].commissionAmount
                 ELSE new[j] = old[j]

C29_OnlyFirstCommissionLineSet == [][OnlyFirstCommissionLineSet]_vars

\* both requests answered: the one found a report without a line of
\* category 10, the other a report with two of them, the second untouched
C29_Witness ==
    /\ \A r \in RequestIds : At(r, "redirected")
    /\ Len(expenseReports) = 2
    /\ \E r1, r2 \in RequestIds :
         /\ requests[r1].expenseReportId = 1
         /\ ~HasCommissionLine(expenseReports[1].expense)
         /\ requests[r2].expenseReportId = 2
         /\ Len(expenseReports[2].expense) = 3
         /\ expenseReports[2].expense[2].amount = requests[r2].commissionAmount
         /\ expenseReports[2].expense[3] = Line(CommissionCategory, 11)

(***************************************************************************)
(* C30.  Suitelet: when a POST finds a commission record of the employee,  *)
(* only the record's commission amount is overwritten: its 2023 sales      *)
(* amount and its employee name stay, also when the submitted sales amount *)
(* is another one.                                                         *)
(***************************************************************************)
\* the request r updates the commission record it has found
UpdatesFound(r) ==
    /\ At(r, "commissionSearched")
    /\ requests'[r].pc = "commissionSaved"
    /\ requests[r].existing # Null

OnlyCommissionAmountOverwritten ==
    \A r \in RequestIds :
      UpdatesFound(r) =>
        LET id == requests[r].existing
        IN  /\ DOMAIN commissionRecords' = DOMAIN commissionRecords
            /\ \A other \in DOMAIN commissionRecords \ { id } :
                 commissionRecords'[other] = commissionRecords[other]
            /\ commissionRecords'[id].custrecord_jj_commission_amount =
                 requests[r].commissionAmount
            /\ commissionRecords'[id].custrecord_jj_2023_sales_amount =
                 commissionRecords[id].custrecord_jj_2023_sales_amount
            /\ commissionRecords'[id].custrecord_jj_employee_name =
                 commissionRecords[id].custrecord_jj_employee_name
            /\ commissionRecords'[id].custrecord_jj_expense_report_link =
                 LinkOf(id)

C30_OnlyCommissionAmountOverwritten ==
    [][OnlyCommissionAmountOverwritten]_vars

\* a request answered whose commission record holds the commission it
\* submitted and not the sales amount it submitted
C30_Witness ==
    \E r \in RequestIds :
        /\ At(r, "redirected")
        /\ requests[r].commissionRecordId \in DOMAIN commissionRecords
        /\ LET rec == commissionRecords[requests[r].commissionRecordId]
           IN  /\ rec.custrecord_jj_commission_amount =
                    requests[r].commissionAmount
               /\ rec.custrecord_jj_2023_sales_amount # requests[r].salesAmount

=============================================================================
